---- MODULE Spec2Model ----
(***************************************************************************)
(* A model of echo4http/server.py: the HTTP echo handler                   *)
(* (RequestHandler.handle_request), the port probe (check_port), and the   *)
(* process lifecycle (__main__, run_http_server) of the echo server.       *)
(*                                                                         *)
(* Text is modelled as a sequence of one-character strings, a byte string  *)
(* as a sequence of numbers 0..255, a Python dict as the sequence of its   *)
(* items in insertion order (keys unique).                                 *)
(***************************************************************************)
EXTENDS Integers, Sequences, FiniteSets, TLC

VARIABLES
    pc,           \* per process: the position in __main__ / run_http_server
    exitCode,     \* per process: NotExited, or the exit status of the process
    how,          \* per process: what ended the process
    listener,     \* the process whose listening socket holds the port, or NoProc
    everListened, \* per process: HTTPServer(...) returned (line 167)
    serverClosed, \* per process: httpd.server_close() has run (line 176)
    interrupted,  \* per process: a KeyboardInterrupt was delivered (at most one is)
    probe,        \* per process: how the connect of check_port ended
    log,          \* per process: the entries written through `logger`
    cstate,       \* per connection: where the connection is
    creq,         \* per connection: the request the client sends on it
    srv,          \* per connection: the process whose listener took it
    bodyArrived,  \* per connection: the client has sent its body bytes
    eof,          \* per connection: the client has closed its sending side
    nread,        \* per connection: bytes taken from rfile by the handler
    resp,         \* per connection: the response written to wfile
    order,        \* per process: the connections in the order it accepted them
    qs,           \* SpecQuery: the query string under test
    hs,           \* SpecHeaders, SpecBody: the header lines under test
    stream,       \* SpecBody: the bytes the client sent after the headers
    out           \* the three pure specifications: the handler's result

vars == <<pc, exitCode, how, listener, everListened, serverClosed, interrupted,
          probe, log, cstate, creq, srv, bodyArrived, eof, nread, resp, order,
          qs, hs, stream, out>>

procVars == <<pc, exitCode, how, listener, everListened, serverClosed,
              interrupted, probe, log, order>>
connVars == <<cstate, creq, srv, bodyArrived, eof, nread, resp>>
pureVars == <<qs, hs, stream, out>>

----------------------------------------------------------------------------
(* Bounds of the model *)

MaxQueryLen == 7     \* characters of a query string
MaxHeaders == 3      \* header lines of a request
MaxStreamLen == 3    \* body bytes a client sends
MaxConns == 2        \* connections made over the life of the model

----------------------------------------------------------------------------
(* Sequences *)

RECURSIVE SeqsUpTo(_, _)
SeqsUpTo(S, n) ==
    IF n = 0 THEN {<<>>}
    ELSE LET shorter == SeqsUpTo(S, n - 1)
         IN  shorter \cup {Append(s, x) : s \in {t \in shorter : Len(t) = n - 1}, x \in S}

\* The index of the first x in s, or 0
IndexOf(s, x) ==
    IF \E i \in 1..Len(s) : s[i] = x
    THEN CHOOSE i \in 1..Len(s) : s[i] = x /\ \A j \in 1..(i - 1) : s[j] # x
    ELSE 0

\* str.split(sep): the pieces between the separators, empty pieces kept
RECURSIVE Split(_, _)
Split(s, sep) ==
    LET i == IndexOf(s, sep)
    IN  IF i = 0 THEN <<s>>
        ELSE <<SubSeq(s, 1, i - 1)>> \o Split(SubSeq(s, i + 1, Len(s)), sep)

\* str.split(sep, 1): at most one cut, at the first separator
Split1(s, sep) ==
    LET i == IndexOf(s, sep)
    IN  IF i = 0 THEN <<s>>
        ELSE <<SubSeq(s, 1, i - 1), SubSeq(s, i + 1, Len(s))>>

----------------------------------------------------------------------------
(* Python dicts: a sequence of [key, val] items, insertion-ordered *)

DictKeys(d) == {d[i].key : i \in 1..Len(d)}

DictGet(d, k) == d[CHOOSE i \in 1..Len(d) : d[i].key = k].val

\* d[k] = v: an existing key keeps its place, a new key goes last
DictSet(d, k, v) ==
    IF k \in DictKeys(d)
    THEN [i \in 1..Len(d) |-> IF d[i].key = k THEN [key |-> k, val |-> v] ELSE d[i]]
    ELSE Append(d, [key |-> k, val |-> v])

----------------------------------------------------------------------------
(* Query parameters: urlparse, parse_qs and the collapsing comprehension *)

QueryChars == {"a", "1", "+", "=", "&"}

\* unquote(s.replace('+', ' ')); the alphabet has no '%', so no %XX escape occurs
Unquote(s) == [i \in 1..Len(s) |-> IF s[i] = "+" THEN " " ELSE s[i]]

\* urllib.parse.parse_qsl with its defaults (keep_blank_values=False,
\* strict_parsing=False, separator='&'): the (name, value) pairs in order
RECURSIVE QslOfPieces(_)
QslOfPieces(pieces) ==
    IF pieces = <<>> THEN <<>>
    ELSE LET nv   == Split1(Head(pieces), "=")
             rest == QslOfPieces(Tail(pieces))
         IN  IF Head(pieces) = <<>> THEN rest
             ELSE IF Len(nv) # 2 THEN rest
             ELSE IF Len(nv[2]) > 0
                  THEN <<[name |-> Unquote(nv[1]), value |-> Unquote(nv[2])]>> \o rest
                  ELSE rest

ParseQsl(q) == IF q = <<>> THEN <<>> ELSE QslOfPieces(Split(q, "&"))

\* urllib.parse.parse_qs: name -> the list of its values, in order
RECURSIVE ParseQsFrom(_, _)
ParseQsFrom(pairs, d) ==
    IF pairs = <<>> THEN d
    ELSE LET p == Head(pairs)
         IN  ParseQsFrom(Tail(pairs),
                 IF p.name \in DictKeys(d)
                 THEN DictSet(d, p.name, Append(DictGet(d, p.name), p.value))
                 ELSE DictSet(d, p.name, <<p.value>>))

ParseQs(q) == ParseQsFrom(ParseQsl(q), <<>>)

\* A JSON value of query_params: a single string or a list of strings
Str(s) == [str |-> s]
List(l) == [list |-> l]

\* line 97: {k: v[0] if len(v) == 1 else v for k, v in query_params.items()}
Collapse(d) ==
    [i \in 1..Len(d) |->
        [key |-> d[i].key,
         val |-> IF Len(d[i].val) = 1 THEN Str(d[i].val[1]) ELSE List(d[i].val)]]

\* lines 93-97 on the query part of the request target
QueryParams(q) == Collapse(ParseQs(q))

----------------------------------------------------------------------------
(* Headers: http.client.HTTPMessage, dict(self.headers) and line 101 *)

\* A header line as the client sent it: [name |-> "X-A", value |-> <<"1">>]
HeaderNames == {"X-A", "x-a", "X-a", "Y-B"}
HeaderValues == {<<"1">>, <<"2">>}
HeaderLines == [name : HeaderNames, value : HeaderValues]

\* str.lower() on the header names in use
Lower(name) ==
    CASE name = "X-A" -> "x-a"
      [] name = "X-a" -> "x-a"
      [] name = "Y-B" -> "y-b"
      [] name = "Content-Length" -> "content-length"
      [] name = "CONTENT-LENGTH" -> "content-length"
      [] name = "User-Agent" -> "user-agent"
      [] OTHER -> name

\* The variant of MessageGet that returns the last matching line
MessageGetLast(lines, name) ==
    lines[CHOOSE i \in 1..Len(lines) :
            /\ Lower(lines[i].name) = Lower(name)
            /\ \A j \in (i + 1)..Len(lines) : Lower(lines[j].name) # Lower(name)].value

\* email.message.Message.__getitem__: the value of the FIRST line whose name
\* matches, names compared case-insensitively
MessageGet(lines, name) ==
    lines[CHOOSE i \in 1..Len(lines) :
            /\ Lower(lines[i].name) = Lower(name)
            /\ \A j \in 1..(i - 1) : Lower(lines[j].name) # Lower(name)].value

\* dict(self.headers): for k in msg.keys(): d[k] = msg[k]; keys() lists every
\* line's name as sent, duplicates included
RECURSIVE DictOfMessageFrom(_, _, _)
DictOfMessageFrom(lines, i, d) ==
    IF i > Len(lines) THEN d
    ELSE DictOfMessageFrom(lines, i + 1,
             DictSet(d, lines[i].name, MessageGet(lines, lines[i].name)))

DictOfMessage(lines) == DictOfMessageFrom(lines, 1, <<>>)

\* line 101: {header.lower(): value for header, value in dict(...).items()}
RECURSIVE LowerKeysFrom(_, _, _)
LowerKeysFrom(items, i, d) ==
    IF i > Len(items) THEN d
    ELSE LowerKeysFrom(items, i + 1, DictSet(d, Lower(items[i].key), items[i].val))

Headers(lines) == LowerKeysFrom(DictOfMessage(lines), 1, <<>>)

----------------------------------------------------------------------------
(* The body: int(), rfile.read() and bytes.decode('utf-8') *)

Digits == <<"0", "1", "2", "3", "4", "5", "6", "7", "8", "9">>
IsDigit(c) == \E i \in 1..10 : Digits[i] = c
DigitVal(c) == (CHOOSE i \in 1..10 : Digits[i] = c) - 1

RECURSIVE DigitsVal(_)
DigitsVal(s) ==
    IF s = <<>> THEN 0
    ELSE 10 * DigitsVal(SubSeq(s, 1, Len(s) - 1)) + DigitVal(s[Len(s)])

\* The decimal text of n, 0 <= n <= 99
DecStr(n) == IF n < 10 THEN <<Digits[n + 1]>>
             ELSE <<Digits[(n \div 10) + 1], Digits[(n % 10) + 1]>>

\* int(text): an optional sign and one or more digits; anything else raises
\* ValueError
IntOf(s) ==
    LET signed == Len(s) > 0 /\ s[1] \in {"-", "+"}
        digs   == IF signed THEN Tail(s) ELSE s
    IN  IF Len(digs) > 0 /\ \A i \in 1..Len(digs) : IsDigit(digs[i])
        THEN [ok |-> TRUE,
              val |-> IF signed /\ s[1] = "-" THEN 0 - DigitsVal(digs)
                      ELSE DigitsVal(digs)]
        ELSE [ok |-> FALSE, val |-> 0]

\* line 104: int(headers.get('content-length', 0))
ContentLength(headers) ==
    IF "content-length" \in DictKeys(headers)
    THEN IntOf(DictGet(headers, "content-length"))
    ELSE [ok |-> TRUE, val |-> 0]

\* A continuation byte 10xxxxxx
IsCont(b) == b >= 128 /\ b <= 191

\* str.encode('utf-8') of one code point
EncodeChar(cp) ==
    IF cp < 128 THEN <<cp>>
    ELSE IF cp < 2048 THEN <<192 + (cp \div 64), 128 + (cp % 64)>>
    ELSE IF cp < 65536
         THEN <<224 + (cp \div 4096), 128 + ((cp \div 64) % 64), 128 + (cp % 64)>>
    ELSE <<240 + (cp \div 262144), 128 + ((cp \div 4096) % 64),
           128 + ((cp \div 64) % 64), 128 + (cp % 64)>>

RECURSIVE EncodeUtf8(_)
EncodeUtf8(text) ==
    IF text = <<>> THEN <<>> ELSE EncodeChar(Head(text)) \o EncodeUtf8(Tail(text))

\* The variant of DecodeUtf8 that decodes as latin-1: one character per byte
DecodeLatin1(bs) == [ok |-> TRUE, text |-> bs]

\* bytes.decode('utf-8'), errors='strict': the code points, or the
\* UnicodeDecodeError
RECURSIVE DecodeUtf8(_)
DecodeUtf8(bs) ==
    IF bs = <<>> THEN [ok |-> TRUE, text |-> <<>>]
    ELSE
      LET b1 == bs[1]
          n  == IF b1 < 128 THEN 1
                ELSE IF b1 >= 194 /\ b1 <= 223 THEN 2
                ELSE IF b1 >= 224 /\ b1 <= 239 THEN 3
                ELSE IF b1 >= 240 /\ b1 <= 244 THEN 4
                ELSE 0
          wellFormed == /\ n > 0
                        /\ Len(bs) >= n
                        /\ \A i \in 2..n : IsCont(bs[i])
          cp == CASE n = 1 -> b1
                  [] n = 2 -> (b1 - 192) * 64 + (bs[2] - 128)
                  [] n = 3 -> (b1 - 224) * 4096 + (bs[2] - 128) * 64 + (bs[3] - 128)
                  [] n = 4 -> (b1 - 240) * 262144 + (bs[2] - 128) * 4096
                                + (bs[3] - 128) * 64 + (bs[4] - 128)
                  [] OTHER -> 0
          scalar == CASE n = 3 -> cp >= 2048 /\ ~(cp >= 55296 /\ cp <= 57343)
                      [] n = 4 -> cp >= 65536 /\ cp <= 1114111
                      [] OTHER -> TRUE
      IN  IF ~wellFormed THEN [ok |-> FALSE, text |-> <<>>]
          ELSE IF ~scalar THEN [ok |-> FALSE, text |-> <<>>]
          ELSE LET rest == DecodeUtf8(SubSeq(bs, n + 1, Len(bs)))
               IN  IF rest.ok THEN [ok |-> TRUE, text |-> <<cp>> \o rest.text]
                   ELSE rest

\* rfile.read(n) once the read has ended: the first n bytes of what the client
\* sent, fewer when the client closed before sending n
RfileRead(sent, n) == SubSeq(sent, 1, IF n < Len(sent) THEN n ELSE Len(sent))

\* Whether line 105 reads the stream at all
ReadsBody(contentLength) == contentLength.ok /\ contentLength.val > 0

\* lines 104-105 on the lowered headers and the bytes the client sent: the
\* body, the number of bytes taken from the stream, or the exception raised
Body(headers, sent) ==
    LET n == ContentLength(headers)
    IN  IF ~n.ok THEN [ok |-> FALSE, err |-> "ValueError", text |-> <<>>, nread |-> 0]
        ELSE IF n.val > 0
        THEN LET bytes == RfileRead(sent, n.val)
                 d     == DecodeUtf8(bytes)
             IN  IF d.ok
                 THEN [ok |-> TRUE, err |-> "", text |-> d.text, nread |-> Len(bytes)]
                 ELSE [ok |-> FALSE, err |-> "UnicodeDecodeError", text |-> <<>>,
                       nread |-> Len(bytes)]
        ELSE [ok |-> TRUE, err |-> "", text |-> <<>>, nread |-> 0]

----------------------------------------------------------------------------
(* The request target: urlparse(self.path) *)

\* lines 93-95: the fragment is cut at the first '#', then path and query are
\* cut at the first '?'
UrlParse(target) ==
    LET noFrag == Split1(target, "#")[1]
        pq     == Split1(noFrag, "?")
    IN  [path |-> pq[1], query |-> IF Len(pq) = 2 THEN pq[2] ELSE <<>>]

----------------------------------------------------------------------------
(* State shared by the specifications *)

Procs == {"p1", "p2"}
NoProc == "none"
Conns == 1..MaxConns
NotExited == 0 - 1

NoOut == [done |-> FALSE]
NoReq == [method |-> "", target |-> <<>>, headers |-> <<>>, sent |-> <<>>]
NoData == [method |-> "", endpoint |-> <<>>, query_params |-> <<>>,
           headers |-> <<>>, body |-> <<>>]
NoResp == [status |-> 0, ctype |-> "", data |-> NoData]

\* Before either process is started and before any client connects
InitServer ==
    /\ pc = [p \in Procs |-> "check_port"]
    /\ exitCode = [p \in Procs |-> NotExited]
    /\ how = [p \in Procs |-> ""]
    /\ listener = NoProc
    /\ everListened = [p \in Procs |-> FALSE]
    /\ serverClosed = [p \in Procs |-> FALSE]
    /\ interrupted = [p \in Procs |-> FALSE]
    /\ probe = [p \in Procs |-> ""]
    /\ log = [p \in Procs |-> <<>>]
    /\ order = [p \in Procs |-> <<>>]
    /\ cstate = [c \in Conns |-> "new"]
    /\ creq = [c \in Conns |-> NoReq]
    /\ srv = [c \in Conns |-> NoProc]
    /\ bodyArrived = [c \in Conns |-> FALSE]
    /\ eof = [c \in Conns |-> FALSE]
    /\ nread = [c \in Conns |-> 0]
    /\ resp = [c \in Conns |-> NoResp]

----------------------------------------------------------------------------
(* SpecQuery: handle_request lines 93-97 on every query string *)

InitQuery ==
    /\ InitServer
    /\ qs \in SeqsUpTo(QueryChars, MaxQueryLen)
    /\ hs = <<>>
    /\ stream = <<>>
    /\ out = NoOut

ParseQuery ==
    /\ ~out.done
    /\ out' = [done |-> TRUE,
               query_params |-> QueryParams(UrlParse(<<"/", "u", "?">> \o qs).query)]
    /\ UNCHANGED <<procVars, connVars, qs, hs, stream>>

NextQuery == ParseQuery

SpecQuery == InitQuery /\ [][NextQuery]_vars

\* The parameters written in a query string: every non-empty piece between
\* '&' is one occurrence of the name before its first '='
RECURSIVE OccurrencesOf(_)
OccurrencesOf(pieces) ==
    IF pieces = <<>> THEN <<>>
    ELSE LET nv == Split1(Head(pieces), "=")
         IN  (IF Head(pieces) = <<>> THEN <<>>
              ELSE <<[name  |-> Unquote(nv[1]),
                      value |-> IF Len(nv) = 2 THEN Unquote(nv[2]) ELSE <<>>]>>)
             \o OccurrencesOf(Tail(pieces))

Occurrences(q) == OccurrencesOf(Split(q, "&"))

\* The values of the occurrences of name k, in their order
RECURSIVE ValuesOf(_, _)
ValuesOf(occ, k) ==
    IF occ = <<>> THEN <<>>
    ELSE (IF Head(occ).name = k THEN <<Head(occ).value>> ELSE <<>>)
         \o ValuesOf(Tail(occ), k)

NoDuplicateKeys(d) == \A i, j \in 1..Len(d) : d[i].key = d[j].key => i = j

\* C2 as stated: query_params has one key per distinct parameter name of the
\* query string; a name occurring once maps to the single string, a name
\* occurring more than once maps to the list of all its values in order.
C2_Original ==
    out.done =>
        LET occ == Occurrences(qs)
            d   == out.query_params
        IN  /\ NoDuplicateKeys(d)
            /\ DictKeys(d) = {occ[i].name : i \in 1..Len(occ)}
            /\ \A k \in DictKeys(d) :
                   LET vs == ValuesOf(occ, k)
                   IN  DictGet(d, k) = IF Len(vs) = 1 THEN Str(vs[1]) ELSE List(vs)

----------------------------------------------------------------------------
(* SpecHeaders: handle_request line 101 on every list of header lines *)

InitHeaders ==
    /\ InitServer
    /\ qs = <<>>
    /\ hs \in SeqsUpTo(HeaderLines, MaxHeaders)
    /\ stream = <<>>
    /\ out = NoOut

CollectHeaders ==
    /\ ~out.done
    /\ out' = [done |-> TRUE, headers |-> Headers(hs)]
    /\ UNCHANGED <<procVars, connVars, qs, hs, stream>>

NextHeaders == CollectHeaders

SpecHeaders == InitHeaders /\ [][NextHeaders]_vars

\* line i is the first / the last line of its name, case ignored
FirstOfName(lines, i) == \A j \in 1..(i - 1) : Lower(lines[j].name) # Lower(lines[i].name)
LastOfName(lines, i) ==
    \A j \in (i + 1)..Len(lines) : Lower(lines[j].name) # Lower(lines[i].name)

OneEntryPerLowerName(lines, d) ==
    /\ NoDuplicateKeys(d)
    /\ DictKeys(d) = {Lower(lines[i].name) : i \in 1..Len(lines)}

\* C4 as stated: one entry per distinct lower-cased header name, and a name
\* sent more than once keeps the value of its last occurrence.
C4_Original ==
    out.done =>
        /\ OneEntryPerLowerName(hs, out.headers)
        /\ \A i \in 1..Len(hs) :
               LastOfName(hs, i) => DictGet(out.headers, Lower(hs[i].name)) = hs[i].value

\* C4 amended: one entry per distinct lower-cased header name, and a name
\* sent more than once keeps the value of its FIRST occurrence.
C4_FirstOccurrenceKept ==
    out.done =>
        /\ OneEntryPerLowerName(hs, out.headers)
        /\ \A i \in 1..Len(hs) :
               FirstOfName(hs, i) => DictGet(out.headers, Lower(hs[i].name)) = hs[i].value

\* C4's case: the same name sent in two cases with two values, and the
\* value of the first line is the one in the mapping
C4_Witness ==
    /\ out.done
    /\ Len(hs) >= 2
    /\ hs[1] = [name |-> "X-A", value |-> <<"1">>]
    /\ hs[2] = [name |-> "x-a", value |-> <<"2">>]
    /\ out.headers = <<[key |-> "x-a", val |-> <<"1">>]>>

----------------------------------------------------------------------------
(* SpecBody: handle_request lines 101-105 on every Content-Length header and
   every byte stream *)

\* 'A', the two bytes of U+00E9, the three bytes of U+20AC, and 0xFF
Bytes == {65, 195, 169, 226, 130, 172, 255}
CodePoints == {65, 233, 8364}
Texts == {t \in SeqsUpTo(CodePoints, MaxStreamLen) : Len(EncodeUtf8(t)) <= MaxStreamLen}

ContentLengthValues ==
    {DecStr(n) : n \in 0..(MaxStreamLen + 1)} \cup {<<"-", "1">>, <<"x">>, <<"0", "2">>}
ContentLengthLines ==
    [name : {"Content-Length", "CONTENT-LENGTH"}, value : ContentLengthValues]

InitBody ==
    /\ InitServer
    /\ qs = <<>>
    /\ hs \in {<<>>} \cup {<<h>> : h \in ContentLengthLines}
    /\ stream \in SeqsUpTo(Bytes, MaxStreamLen)
    /\ out = NoOut

ReadBody ==
    /\ ~out.done
    /\ out' = [done |-> TRUE, body |-> Body(Headers(hs), stream)]
    /\ UNCHANGED <<procVars, connVars, qs, hs, stream>>

NextBody == ReadBody

SpecBody == InitBody /\ [][NextBody]_vars

\* The number a Content-Length value spells, for the values ContentLengthValues
\* holds: its decimal digits
Spells(value, n) == \E k \in 0..(MaxStreamLen + 1) : k = n /\ value \in {DecStr(k), <<"0">> \o DecStr(k)}

\* C3: with Content-Length absent or 0 the body is "" and nothing is read
\* from the stream; with a text body and the matching Content-Length exactly
\* that many bytes are read and the body is the text sent.
C3_BodyRule ==
    out.done =>
        /\ (hs = <<>> \/ (hs # <<>> /\ Spells(hs[1].value, 0))) =>
               /\ out.body.ok
               /\ out.body.text = <<>>
               /\ out.body.nread = 0
        /\ \A t \in Texts :
               (/\ t # <<>>
                /\ stream = EncodeUtf8(t)
                /\ hs # <<>>
                /\ Spells(hs[1].value, Len(stream))) =>
                   /\ out.body.ok
                   /\ out.body.text = t
                   /\ out.body.nread = Len(stream)

\* C3's case: the text U+00E9 'A' sent as three bytes with Content-Length: 3
C3_Witness ==
    /\ out.done
    /\ stream = <<195, 169, 65>>
    /\ hs = <<[name |-> "Content-Length", value |-> <<"3">>]>>
    /\ out.body.ok
    /\ out.body.text = <<233, 65>>
    /\ out.body.nread = 3

----------------------------------------------------------------------------
(* Spec: one start of the server and its clients.  SpecTwoStarts: two starts
   on the same port *)

UserAgent == [name |-> "User-Agent", value |-> <<"t">>]
ContentLengthLine(v) == [name |-> "Content-Length", value |-> v]

Target == <<"/", "u", "?", "a", "=", "1">>

\* The requests the clients send: two verbs without a body, one of them no
\* verb of HTTP; and POSTs with the text U+00E9 and its length, with two bytes
\* that are not UTF-8, with a Content-Length that is no number, and with one
\* byte sent of three declared
Requests ==
    { [method |-> "GET", target |-> Target, headers |-> <<UserAgent>>, sent |-> <<>>],
      [method |-> "BREW", target |-> Target, headers |-> <<UserAgent>>, sent |-> <<>>],
      [method |-> "POST", target |-> Target,
       headers |-> <<UserAgent, ContentLengthLine(<<"2">>)>>, sent |-> <<195, 169>>],
      [method |-> "POST", target |-> Target,
       headers |-> <<ContentLengthLine(<<"2">>)>>, sent |-> <<255, 65>>],
      [method |-> "POST", target |-> Target,
       headers |-> <<ContentLengthLine(<<"x">>)>>, sent |-> <<>>],
      [method |-> "POST", target |-> Target,
       headers |-> <<ContentLengthLine(<<"3">>)>>, sent |-> <<65>>] }

Entry(kind, c) == [kind |-> kind, conn |-> c]

Logged(p, entries) == [log EXCEPT ![p] = log[p] \o entries]

\* The connections inside handle_request
InHandler(p) == {c \in Conns : srv[c] = p /\ cstate[c] \in {"reading", "logged"}}

\* The variant of Idle of a server that hands each connection to a thread
IdleThreaded(p) == TRUE

\* HTTPServer is socketserver.TCPServer without a mix-in: serve_forever takes
\* the next connection only after process_request returned
Idle(p) == InHandler(p) = {}

\* The variant of OnHandlerException in which the exception leaves serve_forever
OnHandlerExceptionUncaught == "exited"

\* An Exception raised by handle_request is caught around process_request
\* (handle_error, shutdown_request): serve_forever goes on
OnHandlerException == "serve_forever"

\* lines 118-122: one logger.info("Received request: ...")
ReceivedEntries(c) == <<Entry("received", c)>>

\* lines 93-101 and 108-116: the response document, given the decoded body
ResponseData(req, text) ==
    [method       |-> req.method,
     endpoint     |-> UrlParse(req.target).path,
     query_params |-> QueryParams(UrlParse(req.target).query),
     headers      |-> Headers(req.headers),
     body         |-> text]

\* The connections of p that end when its listening socket and process go
Reset(p, states) ==
    [c \in Conns |-> IF srv[c] = p /\ cstate[c] \in states THEN "reset" ELSE cstate[c]]

\* What has reached the server of the body bytes
Arrived(c) == IF bodyArrived[c] THEN creq[c].sent ELSE <<>>

(* check_port and the two branches of __main__, lines 189-193 *)

\* The two processes run the same script: "p1" names the one that leaves
\* line 189 first
AtCheckPort(p) ==
    /\ pc[p] = "check_port"
    /\ p = "p1" \/ pc["p1"] # "check_port"

\* connect_ex returns 0: logger.error("Port ... is already in use"), sys.exit(1)
CheckPortInUse(p) ==
    /\ AtCheckPort(p)
    /\ listener # NoProc
    /\ probe' = [probe EXCEPT ![p] = "connected"]
    /\ log' = Logged(p, <<Entry("port_in_use", 0)>>)
    /\ pc' = [pc EXCEPT ![p] = "exited"]
    /\ exitCode' = [exitCode EXCEPT ![p] = 1]
    /\ how' = [how EXCEPT ![p] = "sys.exit"]
    /\ UNCHANGED <<listener, everListened, serverClosed, interrupted, order,
                   connVars, pureVars>>

\* connect_ex returns ECONNREFUSED: nothing listens on the port
CheckPortRefused(p) ==
    /\ AtCheckPort(p)
    /\ listener = NoProc
    /\ probe' = [probe EXCEPT ![p] = "refused"]
    /\ pc' = [pc EXCEPT ![p] = "HTTPServer"]
    /\ UNCHANGED <<exitCode, how, listener, everListened, serverClosed, interrupted,
                   log, order, connVars, pureVars>>

\* connect_ex returns after the 1 s timeout although a socket listens (its
\* backlog is full while the server sits in a handler): check_port is False
CheckPortTimeout(p) ==
    /\ AtCheckPort(p)
    /\ listener # NoProc
    /\ InHandler(listener) # {}
    /\ probe' = [probe EXCEPT ![p] = "timeout"]
    /\ pc' = [pc EXCEPT ![p] = "HTTPServer"]
    /\ UNCHANGED <<exitCode, how, listener, everListened, serverClosed, interrupted,
                   log, order, connVars, pureVars>>

\* socket() or connect_ex raises: lines 153-155 log the error and return False
CheckPortError(p) ==
    /\ AtCheckPort(p)
    /\ probe' = [probe EXCEPT ![p] = "error"]
    /\ log' = Logged(p, <<Entry("probe_error", 0)>>)
    /\ pc' = [pc EXCEPT ![p] = "HTTPServer"]
    /\ UNCHANGED <<exitCode, how, listener, everListened, serverClosed, interrupted,
                   order, connVars, pureVars>>

(* run_http_server, lines 164-176 *)

\* line 167: HTTPServer(...) binds and listens
Bind(p) ==
    /\ pc[p] = "HTTPServer"
    /\ listener = NoProc
    /\ listener' = p
    /\ everListened' = [everListened EXCEPT ![p] = TRUE]
    /\ pc' = [pc EXCEPT ![p] = "announce"]
    /\ UNCHANGED <<exitCode, how, serverClosed, interrupted, probe, log, order,
                   connVars, pureVars>>

\* line 167: bind raises OSError (address already in use); nothing catches it,
\* the interpreter prints the traceback and exits with status 1
BindFails(p) ==
    /\ pc[p] = "HTTPServer"
    /\ listener # NoProc
    /\ pc' = [pc EXCEPT ![p] = "exited"]
    /\ exitCode' = [exitCode EXCEPT ![p] = 1]
    /\ how' = [how EXCEPT ![p] = "OSError"]
    /\ UNCHANGED <<listener, everListened, serverClosed, interrupted, probe, log,
                   order, connVars, pureVars>>

\* line 169: logger.info("HttpEchoServer listening on port: ...")
Announce(p) ==
    /\ pc[p] = "announce"
    /\ log' = Logged(p, <<Entry("listening", 0)>>)
    /\ pc' = [pc EXCEPT ![p] = "serve_forever"]
    /\ UNCHANGED <<exitCode, how, listener, everListened, serverClosed, interrupted,
                   probe, order, connVars, pureVars>>

\* SIGINT outside the try of lines 171-176: the KeyboardInterrupt is not
\* caught, the interpreter ends on the signal (status 130 to a shell); the
\* system releases the port, server_close is never called
InterruptStartup(p) ==
    /\ AtCheckPort(p) \/ pc[p] \in {"HTTPServer", "announce"}
    /\ ~interrupted[p]
    /\ interrupted' = [interrupted EXCEPT ![p] = TRUE]
    /\ pc' = [pc EXCEPT ![p] = "exited"]
    /\ exitCode' = [exitCode EXCEPT ![p] = 130]
    /\ how' = [how EXCEPT ![p] = "KeyboardInterrupt"]
    /\ listener' = IF listener = p THEN NoProc ELSE listener
    /\ cstate' = Reset(p, {"queued"})
    /\ UNCHANGED <<everListened, serverClosed, probe, log, order, creq, srv,
                   bodyArrived, eof, nread, resp, pureVars>>

\* SIGINT inside serve_forever: a connection in the handler is shut down
\* unanswered (the bare except of _handle_request_noblock) and the
\* KeyboardInterrupt reaches line 173
InterruptServing(p) ==
    /\ pc[p] = "serve_forever"
    /\ ~interrupted[p]
    /\ interrupted' = [interrupted EXCEPT ![p] = TRUE]
    /\ pc' = [pc EXCEPT ![p] = "except"]
    /\ cstate' = [c \in Conns |-> IF c \in InHandler(p) THEN "aborted" ELSE cstate[c]]
    /\ UNCHANGED <<exitCode, how, listener, everListened, serverClosed, probe, log,
                   order, creq, srv, bodyArrived, eof, nread, resp, pureVars>>

\* line 174: logger.info("Shutting down the server...")
LogShutdown(p) ==
    /\ pc[p] = "except"
    /\ log' = Logged(p, <<Entry("shutdown", 0)>>)
    /\ pc' = [pc EXCEPT ![p] = "finally"]
    /\ UNCHANGED <<exitCode, how, listener, everListened, serverClosed, interrupted,
                   probe, order, connVars, pureVars>>

\* line 176: httpd.server_close(); run_http_server returns and the script ends
ServerClose(p) ==
    /\ pc[p] = "finally"
    /\ serverClosed' = [serverClosed EXCEPT ![p] = TRUE]
    /\ listener' = IF listener = p THEN NoProc ELSE listener
    /\ cstate' = Reset(p, {"queued"})
    /\ pc' = [pc EXCEPT ![p] = "exited"]
    /\ exitCode' = [exitCode EXCEPT ![p] = 0]
    /\ how' = [how EXCEPT ![p] = "return"]
    /\ UNCHANGED <<everListened, interrupted, probe, log, order, creq, srv,
                   bodyArrived, eof, nread, resp, pureVars>>

\* rfile.read(content_length) returns when the declared bytes have arrived
\* or the client has closed
ReadEnded(c) ==
    \/ Len(Arrived(c)) >= ContentLength(Headers(creq[c].headers)).val
    \/ eof[c]

(* The clients *)

\* A client connects to the listening socket and sends request r: the request
\* line and the headers, and the body bytes with them (whole) or later
Connect(c, r, whole) ==
    /\ cstate[c] = "new"
    /\ \A b \in 1..(c - 1) : cstate[b] # "new"
    /\ listener # NoProc
    /\ whole \/ r.sent # <<>>
    /\ cstate' = [cstate EXCEPT ![c] = "queued"]
    /\ srv' = [srv EXCEPT ![c] = listener]
    /\ creq' = [creq EXCEPT ![c] = r]
    /\ bodyArrived' = [bodyArrived EXCEPT ![c] = whole]
    /\ UNCHANGED <<procVars, eof, nread, resp, pureVars>>

\* Body bytes held back by the client reach the server while the handler
\* waits for them (their arrival before the accept is Connect with whole)
SendBody(c) ==
    /\ cstate[c] = "reading"
    /\ ~bodyArrived[c]
    /\ ~eof[c]
    /\ bodyArrived' = [bodyArrived EXCEPT ![c] = TRUE]
    /\ UNCHANGED <<procVars, cstate, creq, srv, eof, nread, resp, pureVars>>

\* The client closes its sending side while the handler waits for bytes (a
\* close at another moment changes nothing the server does)
ClientClose(c) ==
    /\ cstate[c] = "reading"
    /\ ~ReadEnded(c)
    /\ eof' = [eof EXCEPT ![c] = TRUE]
    /\ UNCHANGED <<procVars, cstate, creq, srv, bodyArrived, nread, resp, pureVars>>

(* serve_forever and handle_request, lines 90-128 *)

\* The connection the listening socket of p hands out next
NextQueued(p, c) ==
    /\ srv[c] = p
    /\ cstate[c] = "queued"
    /\ \A b \in 1..(c - 1) : ~(srv[b] = p /\ cstate[b] = "queued")

\* serve_forever accepts c; do_<VERB> resolves to handle_request for every
\* verb (__getattr__, lines 130-134); lines 93-104 run.  int() raising ends
\* the connection; a positive Content-Length leaves the handler in
\* rfile.read; otherwise the body is "" and lines 108-122 log the request
Accept(p, c) ==
    /\ pc[p] = "serve_forever"
    /\ Idle(p)
    /\ NextQueued(p, c)
    /\ order' = [order EXCEPT ![p] = Append(order[p], c)]
    /\ LET n == ContentLength(Headers(creq[c].headers))
       IN  IF ~n.ok
           THEN /\ cstate' = [cstate EXCEPT ![c] = "failed"]
                /\ pc' = [pc EXCEPT ![p] = OnHandlerException]
                /\ UNCHANGED <<log, resp>>
           ELSE IF ReadsBody(n)
           THEN /\ cstate' = [cstate EXCEPT ![c] = "reading"]
                /\ UNCHANGED <<pc, log, resp>>
           ELSE /\ cstate' = [cstate EXCEPT ![c] = "logged"]
                /\ log' = Logged(p, ReceivedEntries(c))
                /\ resp' = [resp EXCEPT ![c].data = ResponseData(creq[c], <<>>)]
                /\ UNCHANGED pc
    /\ UNCHANGED <<exitCode, how, listener, everListened, serverClosed, interrupted,
                   probe, creq, srv, bodyArrived, eof, nread, pureVars>>

\* line 105 completes: the bytes are decoded (a UnicodeDecodeError ends the
\* connection), then lines 108-122 log the request
FinishRead(p, c) ==
    /\ pc[p] = "serve_forever"
    /\ srv[c] = p
    /\ cstate[c] = "reading"
    /\ ReadEnded(c)
    /\ LET b == Body(Headers(creq[c].headers), Arrived(c))
       IN  /\ nread' = [nread EXCEPT ![c] = b.nread]
           /\ IF b.ok
              THEN /\ cstate' = [cstate EXCEPT ![c] = "logged"]
                   /\ log' = Logged(p, ReceivedEntries(c))
                   /\ resp' = [resp EXCEPT ![c].data = ResponseData(creq[c], b.text)]
                   /\ UNCHANGED pc
              ELSE /\ cstate' = [cstate EXCEPT ![c] = "failed"]
                   /\ pc' = [pc EXCEPT ![p] = OnHandlerException]
                   /\ UNCHANGED <<log, resp>>
    /\ UNCHANGED <<exitCode, how, listener, everListened, serverClosed, interrupted,
                   probe, order, creq, srv, bodyArrived, eof, pureVars>>

\* lines 125-128: send_response(200) (which logs the request line through
\* log_message, at DEBUG), the Content-type header and the JSON document
Respond(p, c) ==
    /\ pc[p] = "serve_forever"
    /\ srv[c] = p
    /\ cstate[c] = "logged"
    /\ log' = Logged(p, <<Entry("access", c)>>)
    /\ resp' = [resp EXCEPT ![c].status = 200, ![c].ctype = "application/json"]
    /\ cstate' = [cstate EXCEPT ![c] = "answered"]
    /\ UNCHANGED <<pc, exitCode, how, listener, everListened, serverClosed,
                   interrupted, probe, order, creq, srv, bodyArrived, eof, nread,
                   pureVars>>

Init ==
    /\ InitServer
    /\ qs = <<>>
    /\ hs = <<>>
    /\ stream = <<>>
    /\ out = NoOut

\* One start of the server, and its clients
Next ==
    \/ CheckPortRefused("p1")
    \/ CheckPortError("p1")
    \/ Bind("p1")
    \/ Announce("p1")
    \/ InterruptStartup("p1")
    \/ InterruptServing("p1")
    \/ LogShutdown("p1")
    \/ ServerClose("p1")
    \/ \E c \in Conns, r \in Requests, whole \in BOOLEAN : Connect(c, r, whole)
    \/ \E c \in Conns : SendBody(c)
    \/ \E c \in Conns : ClientClose(c)
    \/ \E c \in Conns : Accept("p1", c)
    \/ \E c \in Conns : FinishRead("p1", c)
    \/ \E c \in Conns : Respond("p1", c)

Spec == Init /\ [][Next]_vars

\* The connection the clients of SpecTwoStarts use
OneConn == {1}

\* Two starts of the server on the same port, and one client connection
NextTwoStarts ==
    \/ \E p \in Procs : CheckPortInUse(p)
    \/ \E p \in Procs : CheckPortRefused(p)
    \/ \E p \in Procs : CheckPortTimeout(p)
    \/ \E p \in Procs : CheckPortError(p)
    \/ \E p \in Procs : Bind(p)
    \/ \E p \in Procs : BindFails(p)
    \/ \E p \in Procs : Announce(p)
    \/ \E p \in Procs : InterruptStartup(p)
    \/ \E p \in Procs : InterruptServing(p)
    \/ \E p \in Procs : LogShutdown(p)
    \/ \E p \in Procs : ServerClose(p)
    \/ \E c \in OneConn, r \in Requests, whole \in BOOLEAN : Connect(c, r, whole)
    \/ \E c \in OneConn : SendBody(c)
    \/ \E c \in OneConn : ClientClose(c)
    \/ \E p \in Procs, c \in OneConn : Accept(p, c)
    \/ \E p \in Procs, c \in OneConn : FinishRead(p, c)
    \/ \E p \in Procs, c \in OneConn : Respond(p, c)

SpecTwoStarts == Init /\ [][NextTwoStarts]_vars

----------------------------------------------------------------------------
(* The claims about the handler's responses, checked under Spec *)

HandlerEnded(c) == cstate[c] \in {"answered", "failed"}

\* C1 as stated: every request the running server receives, whatever its
\* verb, headers and body, is answered with status 200, Content-Type
\* application/json and request_details.method equal to its verb; no request
\* content leads to no response.
C1_Original ==
    \A c \in Conns :
        HandlerEnded(c) =>
            /\ resp[c].status = 200
            /\ resp[c].ctype = "application/json"
            /\ resp[c].data.method = creq[c].method

\* The number of entries e in the log l
RECURSIVE Count(_, _)
Count(l, e) ==
    IF l = <<>> THEN 0 ELSE (IF Head(l) = e THEN 1 ELSE 0) + Count(Tail(l), e)

\* C8: a fault inside the handler (a Content-Length that is no number, a body
\* that is not UTF-8) ends only that connection, unanswered: the process
\* stays in serve_forever with its exit status unset, its listening socket
\* open and no connection in the handler, so that it takes the next
\* connection; nothing changes for the other connections.
C8_FaultEndsOnlyTheConnection ==
    [][\A c \in Conns :
           (cstate[c] # "failed" /\ cstate'[c] = "failed") =>
               /\ pc'[srv[c]] = "serve_forever"
               /\ exitCode' = exitCode
               /\ how' = how
               /\ listener' = srv[c]
               /\ serverClosed' = serverClosed
               /\ InHandler(srv[c])' = {}
               /\ resp'[c].status = 0
               /\ log' = log
               /\ \A d \in Conns \ {c} : cstate'[d] = cstate[d] /\ resp'[d] = resp[d]]_vars

\* C8's case: the first request failed in the handler, and the second, made
\* to the same process, was accepted after it and answered
C8_Witness ==
    /\ order["p1"] = <<1, 2>>
    /\ cstate[1] = "failed"
    /\ creq[1].sent = <<255, 65>>
    /\ cstate[2] = "answered"
    /\ resp[2].status = 200
    /\ pc["p1"] = "serve_forever"

\* C9: at most one request is inside the handler at any time; a connection is
\* accepted only after the handlers of all connections accepted before it have
\* returned; and a handler that read a body got past rfile.read only with all
\* declared bytes arrived or the connection closed by the client.
C9_OneRequestAtATime ==
    /\ \A p \in Procs : Cardinality(InHandler(p)) <= 1
    /\ \A p \in Procs : \A i \in 1..(Len(order[p]) - 1) : order[p][i] \notin InHandler(p)
    /\ \A c \in Conns :
           LET n == ContentLength(Headers(creq[c].headers))
           IN  (cstate[c] \in {"logged", "answered"} /\ ReadsBody(n)) =>
                   (Len(Arrived(c)) >= n.val \/ eof[c])

\* C9's case: the handler of the first connection waits in rfile.read for
\* bytes the client declared and has not sent, and the second connection
\* waits to be accepted
C9_Witness ==
    /\ cstate[1] = "reading"
    /\ ~bodyArrived[1]
    /\ ~eof[1]
    /\ cstate[2] = "queued"
    /\ srv[2] = srv[1]

\* The request as the server received it: what the client sent of it
Received(c) == [creq[c] EXCEPT !.sent = Arrived(c)]

\* C10 as stated: requests share no state: identical requests get identical
\* responses whatever was handled before or between them, the response being
\* a function of the request alone; and handling a request writes exactly one
\* 'Received request' log entry, before the response is sent.
C10_Original ==
    /\ \A c, d \in Conns :
           (cstate[c] = "answered" /\ cstate[d] = "answered" /\ Received(c) = Received(d)) =>
               resp[c] = resp[d]
    /\ \A c \in Conns :
           LET l == IF srv[c] = NoProc THEN <<>> ELSE log[srv[c]]
           IN  /\ HandlerEnded(c) => Count(l, Entry("received", c)) = 1
               /\ cstate[c] = "answered" =>
                      /\ resp[c].data = ResponseData(creq[c], resp[c].data.body)
                      /\ \E i, j \in 1..Len(l) :
                             /\ i < j
                             /\ l[i] = Entry("received", c)
                             /\ l[j] = Entry("access", c)

----------------------------------------------------------------------------
(* The claims about startup and shutdown *)

HasEntry(p, kind) == \E i \in 1..Len(log[p]) : log[p][i].kind = kind

\* C7 as stated: the server stops only on an interrupt; whenever an interrupt
\* arrives during the life of the process it is caught, the shutdown message
\* is logged, the listening socket is closed and the exit status is 0; every
\* path that leaves run_http_server after the listener was created has closed
\* the listening socket.
C7_Original ==
    \A p \in Procs :
        pc[p] = "exited" =>
            /\ interrupted[p] =>
                   /\ exitCode[p] = 0
                   /\ HasEntry(p, "shutdown")
            /\ everListened[p] => (interrupted[p] /\ serverClosed[p])

\* The processes that ended on a port conflict
EndedOnConflict(p) == pc[p] = "exited" /\ how[p] \in {"sys.exit", "OSError"}

\* C5 as stated: a probe that connects ends in the logged error and exit
\* status 1 with no listener ever created; every other outcome of the probe
\* goes on to bind (a socket error is logged first); a listener exists only
\* after a probe that reported the port free; and any port conflict at startup
\* ends in the logged exit-status-1 path.
C5_Original ==
    \A p \in Procs :
        /\ probe[p] = "connected" =>
               (pc[p] = "exited" /\ exitCode[p] = 1 /\ HasEntry(p, "port_in_use")
                /\ ~everListened[p])
        /\ probe[p] = "error" => HasEntry(p, "probe_error")
        /\ everListened[p] => probe[p] \in {"refused", "timeout", "error"}
        /\ EndedOnConflict(p) => (exitCode[p] = 1 /\ HasEntry(p, "port_in_use"))

\* C6 as stated: when the server is started twice on the same port, under
\* every interleaving of the probes and binds at most one process serves and
\* the other finds the port in use by its probe and never reaches the bind:
\* no process whose probe found the port free fails to bind.
C6_Original ==
    /\ Cardinality({p \in Procs : pc[p] \in {"announce", "serve_forever"}}) <= 1
    /\ \A p \in Procs : probe[p] = "refused" => how[p] # "OSError"

============================================================================
